---- MODULE Spec2Model ----
(***************************************************************************)
(* Model of the Redis Stream worker of helios-ai                           *)
(* (src/app/worker/stream_worker.py) with its counter registry             *)
(* (src/app/metrics.py) and settings (src/app/core/config.py).             *)
(*                                                                         *)
(* One step of the model is one run of a coroutine between two points at   *)
(* which it really suspends (an awaited Redis call, the adapter, a         *)
(* semaphore or lock that is not free).  Outcomes of the environment (the  *)
(* adapter's result, a Redis call failing, the GPU guard) are separate     *)
(* actions; the code's own branches are IF/THEN/ELSE inside an action.     *)
(***************************************************************************)
EXTENDS Integers, Sequences, FiniteSets, TLC

(***************************************************************************)
(* Bounds of the model.                                                    *)
(***************************************************************************)
\* entries in the streams, appended by producers or requeued by the worker
MaxLog == 2
\* calls of start() that go past its guard
MaxStarts == 2
\* semaphores of the worker: the first and those of update_concurrency
MaxGates == 2
\* entries appended while the worker is started and stopped
MaxLifeLog == 2
\* entries of one job: the producer's and its requeued copies
MaxChain == 4
\* entries under load: several jobs at once
MaxLoad == 3
\* entries that producers append while the reclamation loop is observed
MaxReclaim == 2
\* times the GPU guard reports insufficient memory
MaxGuardRejects == 1
\* idle time is counted in ticks and saturates here
MaxIdleTicks == 3
\* ids handed to the buffer of a stream beyond one per entry of the stream
MaxAckCalls == 1
\* the registry alone: a counter is counted up to here
MaxCount == 2

(***************************************************************************)
(* Program constants.                                                      *)
(***************************************************************************)
\* stream_worker.py:177  "if attempt < 3"
HLS_MAX_RETRY == 3
\* config.py:55
REDIS_BATCH_COUNT == 20
\* config.py:56 (seconds)
REDIS_VISIBILITY_TIMEOUT == 300
\* stream_worker.py:402  xautoclaim(..., count=10)
XAUTOCLAIM_COUNT == 10

\* stream_worker.py:42-51 with REDIS_STREAM_PREFIX="p", REDIS_STREAM_PARTITIONS=2
streams == <<"p:0", "p:1">>
StreamSet == {streams[i] : i \in 1..Len(streams)}

\* stream_worker.py:28: this worker's consumer name; Other is a second
\* consumer of the same group (another worker process).
consumer_name == "worker_self"
other_consumer == "worker_other"
Consumers == {consumer_name, other_consumer}

\* a field that the producer did not set (fields.get(key, default))
Absent == -1

\* an "attempt" that int() does not accept
Malformed == -2

VARIABLES
  settings,        \* config.py: the values read from the environment
  running,         \* StreamWorker.running
  semaphores,      \* every asyncio.Semaphore created so far: its free permits
  semaphore,       \* StreamWorker.semaphore: index of the current one
  current_concurrency,
  ack_buffers,     \* StreamWorker._ack_buffers: stream -> list of ids
  ack_keys,        \* insertion order of the keys of _ack_buffers
  ack_lock,        \* StreamWorker._ack_lock: "free" or its holder
  flush,           \* the coroutine inside _flush_acks
  metrics,         \* Metrics._counters
  log,             \* Redis: every entry XADDed to the streams, in order
  dlq,             \* Redis: the dead-letter stream
  group,           \* Redis: per stream, does it exist, has it the group, cursor
  pel,             \* Redis: per consumer, its pending entries
  idle,            \* Redis: per entry, ticks since its last delivery (0: not pending)
  tasks,           \* per entry, the _process_message task created for it
  guardRejects,    \* history: GPU guard rejections so far
  processedIds,    \* history: entries whose task incremented "processed"
  scheduled,       \* history: per stream, ids appended to the buffer, in order
  sent,            \* history: per stream, ids passed to XACK by _flush_acks, in order
  reclaim,         \* _visibility_timeout_loop: index of the stream of its next xautoclaim
  reclaimedIds,    \* history: entries whose owner an XAUTOCLAIM changed/renewed
  redelivered,     \* history: entries returned by a read after a reclaim
  starts,          \* per call of start() that went past its guard: where it
                   \* is and the state of the three loops it created
  redis_client,    \* StreamWorker.redis_client: "none", "open" or "closed"
  flusher,         \* the caller of the _flush_acks in progress: the flush
                   \* loop or the last flush of the g-th start()
  limits,          \* history: the value each semaphore was created with
  ackedIds,        \* history: ids that an XACK which returned has covered
  reacked          \* history: ids that such an XACK has covered again

vars == <<settings, running, semaphores, semaphore, current_concurrency,
          ack_buffers, ack_keys, ack_lock, flush, metrics, log, dlq, group,
          pel, idle, tasks, guardRejects, processedIds, scheduled,
          sent, reclaim, reclaimedIds, redelivered, starts, redis_client,
          flusher, limits, ackedIds, reacked>>

workerVars == <<settings, running, semaphores, semaphore, current_concurrency>>
ackVars == <<ack_buffers, ack_keys, ack_lock, flush, scheduled, sent>>
redisVars == <<log, dlq, group, pel, idle>>
restVars == <<guardRejects, processedIds, reclaim, reclaimedIds, redelivered>>
lifeVars == <<starts, redis_client, flusher>>
histVars == <<limits, ackedIds, reacked>>

(***************************************************************************)
(* Helpers                                                                 *)
(***************************************************************************)
Ids == 1..Len(log)

Min(a, b) == IF a < b THEN a ELSE b

Max(a, b) == IF a > b THEN a ELSE b

Range(s) == {s[i] : i \in 1..Len(s)}

\* the first n elements of a set of integers, in increasing order
RECURSIVE FirstN(_, _)
FirstN(S, n) ==
  IF n = 0 \/ S = {} THEN {}
  ELSE LET m == CHOOSE x \in S : \A y \in S : x <= y
       IN {m} \cup FirstN(S \ {m}, n - 1)

(***************************************************************************)
(* Counter registry (src/app/metrics.py)                                   *)
(***************************************************************************)
CounterNames == {"processed", "failed", "retried", "dlq", "pending",
                 "concurrency_current"}

MetricsInit == [c \in CounterNames |-> 0]

Increment(m, counter) ==
  IF counter \in DOMAIN m THEN [m EXCEPT ![counter] = @ + 1] ELSE m

Decrement(m, counter) ==
  IF counter \in DOMAIN m THEN [m EXCEPT ![counter] = Max(0, @ - 1)] ELSE m

Set(m, counter, value) ==
  IF counter \in DOMAIN m THEN [m EXCEPT ![counter] = value] ELSE m

\* variant: every counter goes back to 0 but "processed"
ResetButProcessed(m) ==
  [c \in DOMAIN m |-> IF c # "processed" THEN 0 ELSE m[c]]

\* reset(): every counter goes back to 0 but concurrency_current
Reset(m) ==
  [c \in DOMAIN m |-> IF c # "concurrency_current" THEN 0 ELSE m[c]]

(***************************************************************************)
(* Redis, as the worker uses it                                            *)
(***************************************************************************)
Pending == UNION {pel[c] : c \in Consumers}

IdsOf(s) == {i \in Ids : log[i].stream = s}

\* XADD stream fields: the entry gets the next id; the stream is created
XAdd(fields) == Append(log, fields)

\* XREADGROUP GROUP g consumer COUNT n STREAMS s id: with ">" the entries
\* never delivered to any consumer, with "0" the caller's own pending ones
XReadGroup(s, c, id, count) ==
  IF id = ">"
  THEN FirstN({i \in IdsOf(s) : i > group[s].last_delivered}, count)
  ELSE FirstN({i \in IdsOf(s) : i \in pel[c]}, count)

\* variant: an XACK naming an id that is not pending is refused as a whole
XAckAllOrNothing(p, ids) ==
  IF ids \subseteq UNION {p[c] : c \in Consumers}
  THEN [c \in Consumers |-> p[c] \ ids] ELSE p

\* XACK: the ids leave the group's pending list, whoever owns them
XAck(p, ids) == [c \in Consumers |-> p[c] \ ids]

\* the ids that a batch names more than once
Twice(batch) ==
  {batch[i] : i \in {k \in 1..Len(batch) : \E j \in 1..(k - 1) : batch[j] = batch[k]}}

\* an XACK of the batch has returned: which ids it covered, and which of them
\* it covered after an earlier XACK or twice itself
Covered(batch) ==
  /\ ackedIds' = ackedIds \cup Range(batch)
  /\ reacked' = reacked \cup (Range(batch) \cap ackedIds) \cup Twice(batch)

TickMs == (REDIS_VISIBILITY_TIMEOUT * 1000) \div 2

IdleMs(i) == idle[i] * TickMs

\* XAUTOCLAIM stream group consumer min-idle 0-0 COUNT n: the pending
\* entries of the stream idle for at least min-idle, oldest id first
XAutoClaimIds(s, min_idle_time, count) ==
  FirstN({i \in IdsOf(s) : i \in Pending /\ IdleMs(i) >= min_idle_time}, count)


(***************************************************************************)
(* Job entries                                                             *)
(***************************************************************************)
\* int(fields.get("attempt", "0"))
AttemptOf(fields) == IF fields.attempt = Absent THEN 0 ELSE fields.attempt

\* what a producer appends; parent is bookkeeping of the model (the entry a
\* copy was derived from, 0 for a producer's entry), not a field on the wire
NewEntry(s, hls, attempt) ==
  [stream |-> s, hls |-> hls, attempt |-> attempt, last_error |-> "",
   retry_at |-> FALSE, parent |-> 0]

\* sem: the semaphore the task entered or waits at (0: none yet); born: the
\* one that was self.semaphore when the task was created
NoTask == [pc |-> "none", error |-> "", sem |-> 0, born |-> 0]

FlushIdle == [pc |-> "sleep", stream |-> "", batch |-> <<>>, todo |-> <<>>]

\* nobody is inside _flush_acks
NoFlusher == [by |-> "", g |-> 0]

\* start() past its guard: it awaits the gather of the three loops it created
NewStart == [pc |-> "gather", consume |-> "read", reclaim |-> "run",
             ackflush |-> "sleep", flushes |-> 0]

Starts == 1..Len(starts)

GroupInit == [s \in StreamSet |->
                [exists |-> FALSE, has_group |-> FALSE, last_delivered |-> 0]]

(***************************************************************************)
(* Init: the state after StreamWorker.__init__ and Metrics.__init__ for    *)
(* each of the settings in S; Backlog(n) is the Redis the worker finds:    *)
(* empty, or n entries of the first stream that another consumer of the    *)
(* group has read and not acknowledged                                     *)
(***************************************************************************)
WorkerInit(S) ==
  /\ settings \in S
  /\ running = FALSE
  /\ semaphores = <<settings.MAX_CONCURRENCY>>
  /\ semaphore = 1
  /\ current_concurrency = settings.MAX_CONCURRENCY
  /\ ack_buffers = [s \in StreamSet |-> <<>>]
  /\ ack_keys = <<>>
  /\ ack_lock = "free"
  /\ flush = FlushIdle
  /\ metrics = MetricsInit
  /\ reclaim = 1
  /\ guardRejects = 0
  /\ processedIds = {}
  /\ scheduled = [s \in StreamSet |-> <<>>]
  /\ sent = [s \in StreamSet |-> <<>>]
  /\ reclaimedIds = {}
  /\ redelivered = {}
  /\ starts = <<>>
  /\ redis_client = "none"
  /\ flusher = NoFlusher
  /\ limits = <<settings.MAX_CONCURRENCY>>
  /\ ackedIds = {}
  /\ reacked = {}

RECURSIVE Repeat(_, _)
Repeat(x, n) == IF n = 0 THEN <<>> ELSE Append(Repeat(x, n - 1), x)

Backlog(n) ==
  /\ log = Repeat(NewEntry(streams[1], TRUE, Absent), n)
  /\ dlq = <<>>
  /\ group = IF n = 0 THEN GroupInit
             ELSE [GroupInit EXCEPT ![streams[1]] =
                     [exists |-> TRUE, has_group |-> TRUE,
                      last_delivered |-> n]]
  /\ pel = [c \in Consumers |-> IF c = other_consumer THEN 1..n ELSE {}]
  /\ idle = Repeat(0, n)
  /\ tasks = Repeat(NoTask, n)

InitWith(S) == WorkerInit(S) /\ Backlog(0)

(***************************************************************************)
(* XADD by anyone: the entry gets the next id, the stream exists from then *)
(* on, and the entry has no task and no delivery yet                       *)
(***************************************************************************)
StreamCreated(g, s) == [g EXCEPT ![s].exists = TRUE]

Appended(fields) ==
  /\ log' = XAdd(fields)
  /\ group' = StreamCreated(group, fields.stream)
  /\ idle' = Append(idle, 0)

\* a producer (external) appends a job entry
Produce(s, hls, attempt) ==
  /\ Appended(NewEntry(s, hls, attempt))
  /\ tasks' = Append(tasks, NoTask)
  /\ UNCHANGED <<lifeVars, histVars, workerVars, ackVars, metrics, dlq, pel, restVars>>

(***************************************************************************)
(* Consumer group                                                          *)
(***************************************************************************)
LastId(s) == IF IdsOf(s) = {} THEN 0
             ELSE CHOOSE i \in IdsOf(s) : \A j \in IdsOf(s) : j <= i

\* xgroup_create(stream, group, id="$", mkstream=True); BUSYGROUP is ignored
CreateConsumerGroup(g, s) ==
  IF g[s].has_group THEN g
  ELSE [g EXCEPT ![s] = [exists |-> TRUE, has_group |-> TRUE,
                         last_delivered |-> LastId(s)]]

\* xinfo_groups(stream) answers for an existing stream, with or without
\* groups; only "no such key" leads to _create_consumer_group
RECURSIVE EnsureFrom(_, _)
EnsureFrom(g, k) ==
  IF k > Len(streams) THEN g
  ELSE EnsureFrom(IF g[streams[k]].exists THEN g
                  ELSE CreateConsumerGroup(g, streams[k]), k + 1)

EnsureConsumerGroup(g) == EnsureFrom(g, 1)

(***************************************************************************)
(* start(): the flag, the gauge, the three loops; the consumption loop     *)
(* connects and ensures the group before its first read                    *)
(***************************************************************************)
\* "if self.running: return"
StartRejected == running

\* _get_redis_client: the first call connects and ensures the groups; later
\* calls return the client there is, closed or not
GetRedisClient ==
  /\ redis_client' = IF redis_client = "none" THEN "open" ELSE redis_client
  /\ group' = IF redis_client = "none" THEN EnsureConsumerGroup(group)
              ELSE group

Start ==
  /\ ~StartRejected
  /\ Len(starts) < MaxStarts
  /\ running' = TRUE
  /\ metrics' = Set(metrics, "concurrency_current", 0)
  /\ starts' = Append(starts, NewStart)
  /\ GetRedisClient
  /\ UNCHANGED <<flusher, histVars, settings, semaphores, semaphore, current_concurrency, ackVars,
                 log, dlq, pel, idle, tasks, restVars>>

\* start() when Redis cannot be reached: the client object is assigned, its
\* ping raises in the consumption loop, before the "while" and outside any
\* "try", and the exception ends that loop
StartConnectFails ==
  /\ ~StartRejected
  /\ Len(starts) < MaxStarts
  /\ redis_client = "none"
  /\ running' = TRUE
  /\ metrics' = Set(metrics, "concurrency_current", 0)
  /\ starts' = Append(starts, [NewStart EXCEPT !.consume = "raised"])
  /\ redis_client' = "open"
  /\ UNCHANGED <<flusher, histVars, settings, semaphores, semaphore,
                 current_concurrency, ackVars, redisVars, tasks, restVars>>

(***************************************************************************)
(* _consume_loop: one iteration                                            *)
(***************************************************************************)
\* streams_spec = {s: ">" for s in self.streams}
StreamsSpecId == ">"

ReadBatch(c) ==
  UNION {XReadGroup(s, c, StreamsSpecId, REDIS_BATCH_COUNT) : s \in StreamSet}

Delivered(g, batch) ==
  [s \in StreamSet |->
     [g[s] EXCEPT !.last_delivered =
        IF batch \cap IdsOf(s) = {} THEN @
        ELSE CHOOSE i \in batch \cap IdsOf(s) :
               \A j \in batch \cap IdsOf(s) : j <= i]]

\* XREADGROUP hands the batch to consumer c
DeliverTo(c, batch) ==
  /\ pel' = [pel EXCEPT ![c] = @ \cup batch]
  /\ idle' = [i \in Ids |-> IF i \in batch THEN 0 ELSE idle[i]]
  /\ group' = Delivered(group, batch)

\* asyncio.create_task(self._process_message(...)) for each entry read
Dispatched(batch) ==
  [i \in Ids |-> IF i \in batch
                 THEN [NoTask EXCEPT !.pc = "sem", !.born = semaphore]
                 ELSE tasks[i]]

\* a read that returns entries: each is delivered to this consumer and a task
\* is created for it; the pending gauge is refreshed after each dispatch
ConsumeLoop ==
  /\ running
  /\ \E g \in Starts : starts[g].consume = "read"
  /\ \A s \in StreamSet : group[s].has_group
  /\ LET batch == ReadBatch(consumer_name)
     IN /\ batch # {}
        /\ DeliverTo(consumer_name, batch)
        /\ tasks' = Dispatched(batch)
        /\ metrics' = Set(metrics, "pending", Cardinality(Pending \cup batch))
        /\ redelivered' = redelivered \cup (batch \cap reclaimedIds)
  /\ UNCHANGED <<lifeVars, histVars, workerVars, ackVars, log, dlq, guardRejects, processedIds,
                 reclaim, reclaimedIds>>

\* the read raises NOGROUP: the groups are ensured again and the loop goes on
ConsumeLoopNoGroup ==
  /\ running
  /\ \E g \in Starts : starts[g].consume = "read"
  /\ \E s \in StreamSet : ~group[s].has_group
  /\ group' = EnsureConsumerGroup(group)
  /\ UNCHANGED <<lifeVars, histVars, workerVars, ackVars, metrics, log, dlq, pel, idle, tasks,
                 restVars>>

(***************************************************************************)
(* _schedule_ack with batch ack                                            *)
(***************************************************************************)
Buffered(bufs, s, id) == [bufs EXCEPT ![s] = Append(@, id)]

KeysWith(keys, s) == IF s \in Range(keys) THEN keys ELSE Append(keys, s)

\* variant: the permit is given back twice
ReleasedTwice(sems, k) == [sems EXCEPT ![k] = @ + 2]

\* "finally" and the end of "async with self.semaphore": gauge and permit
Released(sems, k) == [sems EXCEPT ![k] = @ + 1]

Leave(e, m) ==
  /\ metrics' = Decrement(m, "concurrency_current")
  /\ semaphores' = Released(semaphores, tasks[e].sem)
  /\ tasks' = [tasks EXCEPT ![e].pc = "done"]

\* under the lock the id is appended to its stream's buffer; the task ends
AppendToAckBuffer(e, m) ==
  /\ ack_buffers' = Buffered(ack_buffers, log[e].stream, e)
  /\ ack_keys' = KeysWith(ack_keys, log[e].stream)
  /\ scheduled' = [scheduled EXCEPT ![log[e].stream] = Append(@, e)]
  /\ Leave(e, m)

\* the call of _schedule_ack at the end of a task: it goes through at once
\* when batch ack is on and the lock is free; otherwise the task is suspended
\* at the lock or at the xack
CallScheduleAck(e, m) ==
  IF settings.BATCH_ACK_ENABLED /\ ack_lock = "free"
  THEN AppendToAckBuffer(e, m)
  ELSE /\ metrics' = m
       /\ tasks' = [tasks EXCEPT ![e].pc = "ack"]
       /\ UNCHANGED <<ack_buffers, ack_keys, scheduled, semaphores>>

(***************************************************************************)
(* _process_message: the task of one delivered entry.                      *)
(*   pc: "sem"     waiting at "async with self.semaphore"                  *)
(*       "adapter" inside run_preprocess_from_hls (and the Swift upload)   *)
(*       "requeue" inside _requeue_message, at the xadd                    *)
(*       "dlq"     inside _move_to_dlq, at the xadd                        *)
(*       "ack"     inside _schedule_ack, at the lock or at the xack        *)
(*       "done"    ended                                                   *)
(***************************************************************************)
InGate == {"adapter", "requeue", "dlq", "ack"}

Acquired(sems, k) == [sems EXCEPT ![k] = @ - 1]

\* variant: the comparison with REDIS_MAX_RETRY is inclusive
RetryOrDlqInclusive(fields) ==
  IF AttemptOf(fields) <= settings.REDIS_MAX_RETRY THEN "requeue" ELSE "dlq"

\* "except Exception": attempt is read again and decides between the requeue
\* and the dead-letter stream
RetryOrDlq(fields) ==
  IF AttemptOf(fields) < settings.REDIS_MAX_RETRY THEN "requeue" ELSE "dlq"

\* variant: every task goes through the semaphore made by __init__
GateFirst(e) == 1

\* "async with self.semaphore": the attribute is read when the task first
\* runs; a task that had to wait stays at the semaphore it read then
Gate(e) == IF tasks[e].sem = 0 THEN semaphore ELSE tasks[e].sem

\* the task runs for the first time and finds no permit: it waits
ProcessMessageWait(e) ==
  /\ tasks[e].pc = "sem"
  /\ tasks[e].sem = 0
  /\ semaphores[Gate(e)] = 0
  /\ tasks' = [tasks EXCEPT ![e].sem = Gate(e)]
  /\ UNCHANGED <<lifeVars, histVars, workerVars, ackVars, metrics, redisVars,
                 restVars>>

\* variant: an entry without hls passes the validation
InvalidNever(fields) == FALSE

\* "if not hls_url: raise ValueError"
Invalid(fields) == ~fields.hls

\* the task gets a permit, parses and validates the fields, the GPU guard
\* passes and the adapter is called.  An attempt that is no integer raises
\* in the "try" and again in "except Exception", where it is parsed again:
\* the exception leaves the task through "finally" and the semaphore
ProcessMessageBegin(e) ==
  /\ tasks[e].pc = "sem"
  /\ semaphores[Gate(e)] > 0
  /\ IF log[e].attempt = Malformed
     THEN /\ metrics' = Decrement(Increment(Increment(metrics,
                           "concurrency_current"), "failed"),
                           "concurrency_current")
          /\ tasks' = [tasks EXCEPT ![e].pc = "raised",
                                    ![e].error = "bad_attempt",
                                    ![e].sem = Gate(e)]
          /\ UNCHANGED semaphores
     ELSE IF Invalid(log[e])
     THEN /\ metrics' = Increment(Increment(metrics, "concurrency_current"),
                                  "failed")
          /\ tasks' = [tasks EXCEPT ![e].pc = RetryOrDlq(log[e]),
                                    ![e].error = "empty_hls",
                                    ![e].sem = Gate(e)]
          /\ semaphores' = Acquired(semaphores, Gate(e))
     ELSE /\ metrics' = Increment(metrics, "concurrency_current")
          /\ tasks' = [tasks EXCEPT ![e].pc = "adapter", ![e].error = "",
                                    ![e].sem = Gate(e)]
          /\ semaphores' = Acquired(semaphores, Gate(e))
  /\ UNCHANGED <<lifeVars, histVars, settings, running, semaphore,
                 current_concurrency, ackVars, redisVars, restVars>>

\* the same, but _check_gpu_memory answers False: _requeue_message is called
\* with the parsed attempt and the adapter is not
ProcessMessageGpuBusy(e) ==
  /\ tasks[e].pc = "sem"
  /\ semaphores[Gate(e)] > 0
  /\ log[e].attempt # Malformed
  /\ ~Invalid(log[e])
  /\ guardRejects < MaxGuardRejects
  /\ guardRejects' = guardRejects + 1
  /\ semaphores' = Acquired(semaphores, Gate(e))
  /\ metrics' = Increment(metrics, "concurrency_current")
  /\ tasks' = [tasks EXCEPT ![e].pc = "requeue", ![e].error = "gpu_memory",
                            ![e].sem = Gate(e)]
  /\ UNCHANGED <<lifeVars, histVars, settings, running, semaphore,
                 current_concurrency, ackVars, redisVars, processedIds,
                 reclaim, reclaimedIds, redelivered>>

\* the adapter raises: failed is counted
AdapterRaises(e) ==
  /\ tasks[e].pc = "adapter"
  /\ metrics' = Increment(metrics, "failed")
  /\ tasks' = [tasks EXCEPT ![e].pc = RetryOrDlq(log[e]),
                            ![e].error = "adapter_error"]
  /\ UNCHANGED <<lifeVars, histVars, workerVars, ackVars, redisVars, restVars>>

\* every processing_status the adapter sets counts as processed; then the ack
Completed(e) ==
  /\ processedIds' = processedIds \cup {e}
  /\ CallScheduleAck(e, Increment(metrics, "processed"))

\* the adapter returns success or partial_success
AdapterSucceeds(e) ==
  /\ tasks[e].pc = "adapter"
  /\ Completed(e)
  /\ UNCHANGED <<lifeVars, histVars, settings, running, semaphore, current_concurrency, ack_lock,
                 flush, sent, redisVars, guardRejects, reclaim, reclaimedIds,
                 redelivered>>

\* variant: the limit is the general retry budget
HlsRetryWithinBudget(fields) == AttemptOf(fields) < settings.REDIS_MAX_RETRY

\* "if attempt < 3": the limit of the retries of an unreachable source
HlsRetry(fields) == AttemptOf(fields) < HLS_MAX_RETRY

\* the adapter returns hls_accessible = False (failed_hls_connection)
AdapterHlsUnreachable(e) ==
  /\ tasks[e].pc = "adapter"
  /\ IF HlsRetry(log[e])
     THEN /\ tasks' = [tasks EXCEPT ![e].pc = "requeue",
                                    ![e].error = "hls_connection"]
          /\ UNCHANGED <<metrics, processedIds, ack_buffers, ack_keys,
                         scheduled, semaphores>>
     ELSE Completed(e)
  /\ UNCHANGED <<lifeVars, histVars, settings, running, semaphore, current_concurrency, ack_lock,
                 flush, sent, redisVars, guardRejects, reclaim, reclaimedIds,
                 redelivered>>

\* variant: the copy keeps the attempt it was read with
RequeueFieldsKeepAttempt(e, attempt, error) ==
  [log[e] EXCEPT !.attempt = attempt, !.last_error = error,
                 !.retry_at = TRUE, !.parent = e]

\* variant: the copy does not say why it was requeued
RequeueFieldsNoError(e, attempt, error) ==
  [log[e] EXCEPT !.attempt = attempt + 1, !.retry_at = TRUE, !.parent = e]

\* _requeue_message: fields["attempt"] = str(attempt + 1), last_error, retry_at
RequeueFields(e, attempt, error) ==
  [log[e] EXCEPT !.attempt = attempt + 1, !.last_error = error,
                 !.retry_at = TRUE, !.parent = e]

\* variant: the ack of the original follows its requeue
AfterRequeueAck == "ack"

\* the "return" after _requeue_message, and the end of the "if" branch of
\* "except Exception": the task ends
AfterRequeue == "done"

\* the xadd of _requeue_message succeeds
RequeueMessage(e) ==
  /\ tasks[e].pc = "requeue"
  /\ Appended(RequeueFields(e, AttemptOf(log[e]), tasks[e].error))
  /\ metrics' = Decrement(Increment(metrics, "retried"), "concurrency_current")
  /\ semaphores' = Released(semaphores, tasks[e].sem)
  /\ tasks' = Append([tasks EXCEPT ![e].pc = AfterRequeue], NoTask)
  /\ UNCHANGED <<lifeVars, histVars, settings, running, semaphore, current_concurrency, ackVars,
                 dlq, pel, restVars>>

\* variant: the append is counted before the xadd
RaisedXAddCounted(m, counter) == Increment(m, counter)

\* the xadd raises: the increment after it is skipped
RaisedXAdd(m, counter) == m

\* the xadd of _requeue_message raises: the error is logged, nothing else
RequeueMessageFails(e) ==
  /\ tasks[e].pc = "requeue"
  /\ Leave(e, RaisedXAdd(metrics, "retried"))
  /\ UNCHANGED <<lifeVars, histVars, settings, running, semaphore, current_concurrency, ackVars,
                 redisVars, restVars>>

\* _move_to_dlq: fields["final_error"] = error, dlq_at; parent as in the log
DlqFields(e, error) ==
  [hls |-> log[e].hls, attempt |-> log[e].attempt,
   last_error |-> log[e].last_error, retry_at |-> log[e].retry_at,
   final_error |-> error, dlq_at |-> TRUE, parent |-> e]

\* the xadd of _move_to_dlq succeeds; the ack of the original follows
MoveToDlq(e) ==
  /\ tasks[e].pc = "dlq"
  /\ dlq' = Append(dlq, DlqFields(e, tasks[e].error))
  /\ CallScheduleAck(e, Increment(metrics, "dlq"))
  /\ UNCHANGED <<lifeVars, histVars, settings, running, semaphore, current_concurrency, ack_lock,
                 flush, sent, log, group, pel, idle, restVars>>

\* the xadd of _move_to_dlq raises: the error is logged and the caller goes on
\* to the ack of the original
MoveToDlqFails(e) ==
  /\ tasks[e].pc = "dlq"
  /\ CallScheduleAck(e, RaisedXAdd(metrics, "dlq"))
  /\ UNCHANGED <<lifeVars, histVars, settings, running, semaphore, current_concurrency, ack_lock,
                 flush, sent, redisVars, restVars>>

\* a task suspended at the lock gets it
ScheduleAck(e) ==
  /\ tasks[e].pc = "ack"
  /\ settings.BATCH_ACK_ENABLED
  /\ ack_lock = "free"
  /\ AppendToAckBuffer(e, metrics)
  /\ UNCHANGED <<lifeVars, histVars, settings, running, semaphore, current_concurrency, ack_lock,
                 flush, sent, redisVars, restVars>>

Unpend(ids) == [i \in Ids |-> IF i \in ids THEN 0 ELSE idle[i]]

\* no batch ack: the xack of _schedule_ack returns
ScheduleAckImmediate(e) ==
  /\ tasks[e].pc = "ack"
  /\ ~settings.BATCH_ACK_ENABLED
  /\ pel' = XAck(pel, {e})
  /\ idle' = Unpend({e})
  /\ Covered(<<e>>)
  /\ Leave(e, metrics)
  /\ UNCHANGED <<lifeVars, limits, settings, running, semaphore, current_concurrency, ackVars,
                 log, dlq, group, restVars>>

\* no batch ack: the xack raises, which is logged
ScheduleAckImmediateFails(e) ==
  /\ tasks[e].pc = "ack"
  /\ ~settings.BATCH_ACK_ENABLED
  /\ Leave(e, metrics)
  /\ UNCHANGED <<lifeVars, histVars, settings, running, semaphore, current_concurrency, ackVars,
                 redisVars, restVars>>

\* _schedule_ack(stream, id) awaited by any caller for an entry whose task
\* has ended, whether or not the id was acknowledged before:
\* with batch ack the id goes to the buffer once the lock is free, otherwise
\* the xack is sent at once
ScheduleAckCall(e) ==
  /\ tasks[e].pc = "done"
  /\ IF settings.BATCH_ACK_ENABLED
     THEN /\ ack_lock = "free"
          /\ Len(scheduled[log[e].stream]) <
               Cardinality(IdsOf(log[e].stream)) + MaxAckCalls
          /\ ack_buffers' = Buffered(ack_buffers, log[e].stream, e)
          /\ ack_keys' = KeysWith(ack_keys, log[e].stream)
          /\ scheduled' = [scheduled EXCEPT ![log[e].stream] = Append(@, e)]
          /\ UNCHANGED <<pel, idle, ackedIds, reacked>>
     ELSE /\ pel' = XAck(pel, {e})
          /\ idle' = Unpend({e})
          /\ Covered(<<e>>)
          /\ UNCHANGED <<ack_buffers, ack_keys, scheduled>>
  /\ UNCHANGED <<lifeVars, limits, workerVars, ack_lock, flush, sent, metrics,
                 log, dlq, group, tasks, restVars>>

(***************************************************************************)
(* _ack_flush_loop and _flush_acks                                         *)
(***************************************************************************)
NonEmpty(todo) == {k \in 1..Len(todo) : ack_buffers[todo[k]] # <<>>}

\* variant: only the first id of the buffer is sent
BatchOfFirst(ids) == <<Head(ids)>>

\* batch = ids[:]
BatchOf(ids) == ids

\* variant: the buffer is left as it is
NotCleared(bufs, s) == bufs

\* self._ack_buffers[stream].clear()
Cleared(bufs, s) == [bufs EXCEPT ![s] = <<>>]

\* the _flush_acks in progress returns when no stream of `todo` has ids: to
\* the flush loop, or to the start() that is then left to close the client
FlushReturns(todo) ==
  /\ flusher' = IF NonEmpty(todo) = {} THEN NoFlusher ELSE flusher
  /\ starts' =
       IF NonEmpty(todo) # {} THEN starts
       ELSE IF flusher.by = "start"
       THEN [starts EXCEPT ![flusher.g].pc = "close"]
       ELSE [starts EXCEPT ![flusher.g].ackflush =
                             IF running THEN "sleep" ELSE "exited"]

\* the loop over list(self._ack_buffers.items()) from `todo` on, up to the
\* next xack: the first stream with ids is emptied and its batch sent; when
\* none is left the lock is released
FlushStep(todo) ==
  IF NonEmpty(todo) = {}
  THEN /\ flush' = FlushIdle
       /\ ack_lock' = "free"
       /\ UNCHANGED <<ack_buffers, sent>>
  ELSE LET k == CHOOSE x \in NonEmpty(todo) : \A y \in NonEmpty(todo) : x <= y
           s == todo[k]
           batch == BatchOf(ack_buffers[s])
       IN /\ ack_buffers' = Cleared(ack_buffers, s)
          /\ sent' = [sent EXCEPT ![s] = @ \o batch]
          /\ flush' = [pc |-> "xack", stream |-> s, batch |-> batch,
                       todo |-> SubSeq(todo, k + 1, Len(todo))]
          /\ ack_lock' = "flush"

\* the sleep of a flush loop ends and it finds something buffered: the
\* "while self.running" comes after the flush
AckFlushLoop ==
  /\ settings.BATCH_ACK_ENABLED
  /\ flush.pc = "sleep"
  /\ ack_lock = "free"
  /\ NonEmpty(ack_keys) # {}
  /\ \E g \in Starts :
       /\ starts[g].ackflush = "sleep"
       /\ starts' = [starts EXCEPT ![g].ackflush = "flush"]
       /\ flusher' = [by |-> "loop", g |-> g]
  /\ FlushStep(ack_keys)
  /\ UNCHANGED <<redis_client, histVars, workerVars, ack_keys, scheduled, metrics, redisVars, tasks,
                 restVars>>

\* the xack of the batch in flight returns
FlushAcksXAck ==
  /\ flush.pc = "xack"
  /\ pel' = XAck(pel, Range(flush.batch))
  /\ idle' = Unpend(Range(flush.batch))
  /\ Covered(flush.batch)
  /\ FlushStep(flush.todo)
  /\ FlushReturns(flush.todo)
  /\ UNCHANGED <<redis_client, limits, workerVars, ack_keys, scheduled, metrics, log, dlq, group,
                 tasks, restVars>>

\* variant: the exception of the xack ends the pass over the buffers
LeftAfterErrorNone(todo) == <<>>

\* "except Exception" inside the "for": the pass goes on with the streams left
LeftAfterError(todo) == todo

\* the xack of the batch in flight raises: logged, the ids are not put back
FlushAcksXAckFails ==
  /\ flush.pc = "xack"
  /\ FlushStep(LeftAfterError(flush.todo))
  /\ FlushReturns(LeftAfterError(flush.todo))
  /\ UNCHANGED <<redis_client, histVars, workerVars, ack_keys, scheduled, metrics, redisVars, tasks,
                 restVars>>

(***************************************************************************)
(* _visibility_timeout_loop, the clock, and the other consumer of the      *)
(* group (another worker process running the same code)                    *)
(***************************************************************************)
\* variant: the setting is passed on in seconds
timeout_seconds == REDIS_VISIBILITY_TIMEOUT

\* timeout_ms = settings.REDIS_VISIBILITY_TIMEOUT * 1000
timeout_ms == REDIS_VISIBILITY_TIMEOUT * 1000

\* XAUTOCLAIM: consumer c becomes the owner of ids, whoever owned them
XAutoClaim(p, c, ids) ==
  [x \in Consumers |-> IF x = c THEN p[x] \cup ids ELSE p[x] \ ids]

\* the delivery of a claimed entry starts anew
Claimed(ids) == [i \in Ids |-> IF i \in ids THEN 0 ELSE idle[i]]

\* "for stream in self.streams", then the sleep and the next round
NextStream(k) == (k % Len(streams)) + 1

\* the xautoclaim of the stream the loop is at: it claims, and its result is
\* dropped; without the group it raises NOGROUP, which is logged
VisibilityTimeoutLoop ==
  /\ \E g \in Starts : starts[g].reclaim = "run"
  /\ running \/ reclaim # 1
  /\ LET ids == IF group[streams[reclaim]].has_group
                THEN XAutoClaimIds(streams[reclaim], timeout_ms,
                                   XAUTOCLAIM_COUNT)
                ELSE {}
     IN /\ pel' = XAutoClaim(pel, consumer_name, ids)
        /\ idle' = Claimed(ids)
        /\ reclaimedIds' = reclaimedIds \cup ids
  /\ reclaim' = NextStream(reclaim)
  /\ UNCHANGED <<lifeVars, histVars, workerVars, ackVars, metrics, log, dlq, group, tasks,
                 guardRejects, processedIds, redelivered>>

\* half a visibility timeout passes for every pending entry
Tick ==
  /\ \E i \in Pending : idle[i] < MaxIdleTicks
  /\ idle' = [i \in Ids |-> IF i \in Pending
                            THEN Min(idle[i] + 1, MaxIdleTicks) ELSE idle[i]]
  /\ UNCHANGED <<lifeVars, histVars, workerVars, ackVars, metrics, log, dlq, group, pel, tasks,
                 restVars>>

\* the other consumer reads; it acknowledges and reclaims nothing
OtherRead ==
  /\ \A s \in StreamSet : group[s].has_group
  /\ ReadBatch(other_consumer) # {}
  /\ DeliverTo(other_consumer, ReadBatch(other_consumer))
  /\ redelivered' = redelivered \cup (ReadBatch(other_consumer) \cap reclaimedIds)
  /\ UNCHANGED <<lifeVars, histVars, workerVars, ackVars, metrics, log, dlq, tasks, guardRejects,
                 processedIds, reclaim, reclaimedIds>>

(***************************************************************************)
(* update_concurrency                                                      *)
(***************************************************************************)
\* "if new_concurrency < 1: new_concurrency = 1"
Clamped(n) == IF n < 1 THEN 1 ELSE n

\* the value is stored and a new semaphore replaces self.semaphore; the old
\* one stays with the tasks that read it
UpdateConcurrency(n) ==
  /\ Len(semaphores) < MaxGates
  /\ current_concurrency' = Clamped(n)
  /\ semaphores' = Append(semaphores, Clamped(n))
  /\ semaphore' = Len(semaphores) + 1
  /\ limits' = Append(limits, Clamped(n))
  /\ UNCHANGED <<lifeVars, ackedIds, reacked, settings, running, ackVars,
                 metrics, redisVars, tasks, restVars>>

(***************************************************************************)
(* start() and stop(): the guard of start(), the flag, the ways out of the *)
(* three loops, and the "finally" of start()                               *)
(***************************************************************************)
\* start() while running: the warning and nothing else
StartNoOp ==
  /\ StartRejected
  /\ UNCHANGED vars

\* stop(): self.running = False
Stop ==
  /\ running' = FALSE
  /\ UNCHANGED <<lifeVars, histVars, settings, semaphores, semaphore,
                 current_concurrency, ackVars, metrics, redisVars, tasks,
                 restVars>>

\* variant: an error of the read ends the loop
AfterReadErrorBreak == "exited"

\* "except redis.ResponseError" without NOGROUP and "except Exception":
\* the error is logged and the loop sleeps 5 seconds
AfterReadError == "sleep"

\* the xreadgroup of loop g raises a ResponseError other than NOGROUP
ConsumeLoopResponseError(g) ==
  /\ starts[g].consume = "read"
  /\ starts' = [starts EXCEPT ![g].consume = AfterReadError]
  /\ UNCHANGED <<redis_client, flusher, histVars, workerVars, ackVars,
                 metrics, redisVars, tasks, restVars>>

\* the xreadgroup of loop g raises any other exception (the transport)
ConsumeLoopException(g) ==
  /\ starts[g].consume = "read"
  /\ starts' = [starts EXCEPT ![g].consume = AfterReadError]
  /\ UNCHANGED <<redis_client, flusher, histVars, workerVars, ackVars,
                 metrics, redisVars, tasks, restVars>>

\* the read raises NOGROUP and _ensure_consumer_group raises at its first
\* stream: the loop sleeps 10 seconds
ConsumeLoopNoGroupFails(g) ==
  /\ starts[g].consume = "read"
  /\ \E s \in StreamSet : ~group[s].has_group
  /\ starts' = [starts EXCEPT ![g].consume = "sleep"]
  /\ UNCHANGED <<redis_client, flusher, histVars, workerVars, ackVars,
                 metrics, redisVars, tasks, restVars>>

\* the sleep after an error ends: "while self.running"
ConsumeLoopWake(g) ==
  /\ starts[g].consume = "sleep"
  /\ starts' = [starts EXCEPT ![g].consume =
                               IF running THEN "read" ELSE "exited"]
  /\ UNCHANGED <<redis_client, flusher, histVars, workerVars, ackVars,
                 metrics, redisVars, tasks, restVars>>

\* after stop(): the read returns nothing, or the loop was at the refresh of
\* the gauge; "while self.running" ends the loop
ConsumeLoopExit(g) ==
  /\ starts[g].consume = "read"
  /\ ~running
  /\ starts' = [starts EXCEPT ![g].consume = "exited"]
  /\ UNCHANGED <<redis_client, flusher, histVars, workerVars, ackVars,
                 metrics, redisVars, tasks, restVars>>

\* after stop(): the read in progress returns entries, which are delivered;
\* "if not self.running: break" creates no task for them, and the loop ends
ConsumeLoopLastRead(g) ==
  /\ starts[g].consume = "read"
  /\ ~running
  /\ \A s \in StreamSet : group[s].has_group
  /\ ReadBatch(consumer_name) # {}
  /\ DeliverTo(consumer_name, ReadBatch(consumer_name))
  /\ redelivered' = redelivered \cup (ReadBatch(consumer_name) \cap reclaimedIds)
  /\ starts' = [starts EXCEPT ![g].consume = "exited"]
  /\ UNCHANGED <<redis_client, flusher, histVars, workerVars, ackVars,
                 metrics, log, dlq, tasks, guardRejects, processedIds,
                 reclaim, reclaimedIds>>

\* after stop(): the sleep of the reclamation loop ends
VisibilityTimeoutLoopExit(g) ==
  /\ starts[g].reclaim = "run"
  /\ ~running
  /\ reclaim = 1
  /\ starts' = [starts EXCEPT ![g].reclaim = "exited"]
  /\ UNCHANGED <<redis_client, flusher, histVars, workerVars, ackVars,
                 metrics, redisVars, tasks, restVars>>

\* after stop(): the sleep of the flush loop ends and _flush_acks finds
\* nothing to send
AckFlushLoopExit(g) ==
  /\ starts[g].ackflush = "sleep"
  /\ ~running
  /\ IF settings.BATCH_ACK_ENABLED
     THEN ack_lock = "free" /\ NonEmpty(ack_keys) = {}
     ELSE TRUE
  /\ starts' = [starts EXCEPT ![g].ackflush = "exited"]
  /\ UNCHANGED <<redis_client, flusher, histVars, workerVars, ackVars,
                 metrics, redisVars, tasks, restVars>>

Exited(st) == st.consume = "exited" /\ st.reclaim = "exited" /\ st.ackflush = "exited"

CancelledLoop(pc) == IF pc \in {"exited", "raised"} THEN pc ELSE "cancelled"

\* the gather of start() raises the exception of the consumption loop: the
\* "finally" cancels the two other loops, which are in their sleep
StartLoopRaised(g) ==
  /\ starts[g].pc = "gather"
  /\ starts[g].consume = "raised"
  /\ flusher # [by |-> "loop", g |-> g]
  /\ starts' = [starts EXCEPT ![g] =
                  [pc |-> "flush", consume |-> @.consume,
                   reclaim |-> CancelledLoop(@.reclaim),
                   ackflush |-> CancelledLoop(@.ackflush),
                   flushes |-> @.flushes]]
  /\ UNCHANGED <<redis_client, flusher, histVars, workerVars, ackVars,
                 metrics, redisVars, tasks, restVars>>

\* the task of start() is cancelled inside the gather: the loops are
\* cancelled with it; a flush of its flush loop is left at its xack, which
\* Redis has executed or not, and the lock is released
StartCancelled(g) ==
  /\ starts[g].pc = "gather"
  /\ starts' = [starts EXCEPT ![g] =
                  [pc |-> "flush", consume |-> CancelledLoop(@.consume),
                   reclaim |-> CancelledLoop(@.reclaim),
                   ackflush |-> CancelledLoop(@.ackflush),
                   flushes |-> @.flushes]]
  /\ IF flusher = [by |-> "loop", g |-> g]
     THEN /\ flusher' = NoFlusher
          /\ flush' = FlushIdle
          /\ ack_lock' = "free"
          /\ \/ /\ pel' = XAck(pel, Range(flush.batch))
                /\ idle' = Unpend(Range(flush.batch))
                /\ Covered(flush.batch)
             \/ UNCHANGED <<pel, idle, ackedIds, reacked>>
     ELSE UNCHANGED <<flusher, flush, ack_lock, pel, idle, ackedIds, reacked>>
  /\ UNCHANGED <<redis_client, limits, workerVars, ack_buffers, ack_keys,
                 scheduled, sent, metrics, log, dlq, group, tasks, restVars>>

\* variant: the client is closed without the last flush
AfterGatherClose == "close"

\* "finally" of start(): the loops are done, the last flush comes next
AfterGather == "flush"

\* the gather returns: the three loops have ended
StartGathered(g) ==
  /\ starts[g].pc = "gather"
  /\ Exited(starts[g])
  /\ starts' = [starts EXCEPT ![g].pc = AfterGather]
  /\ UNCHANGED <<redis_client, flusher, histVars, workerVars, ackVars,
                 metrics, redisVars, tasks, restVars>>

\* "await self._flush_acks()" in the "finally" of start()
StartFlushAcks(g) ==
  /\ starts[g].pc = "flush"
  /\ starts[g].flushes = 0
  /\ IF settings.BATCH_ACK_ENABLED /\ NonEmpty(ack_keys) # {}
     THEN /\ ack_lock = "free"
          /\ FlushStep(ack_keys)
          /\ flusher' = [by |-> "start", g |-> g]
          /\ starts' = [starts EXCEPT ![g].flushes = 1]
     ELSE /\ settings.BATCH_ACK_ENABLED => ack_lock = "free"
          /\ starts' = [starts EXCEPT ![g].flushes = 1, ![g].pc = "close"]
          /\ UNCHANGED <<flusher, flush, ack_lock, ack_buffers, sent>>
  /\ UNCHANGED <<redis_client, histVars, workerVars, ack_keys, scheduled,
                 metrics, redisVars, tasks, restVars>>

\* "await self.redis_client.close()": start() returns
StartClose(g) ==
  /\ starts[g].pc = "close"
  /\ redis_client' = "closed"
  /\ starts' = [starts EXCEPT ![g].pc = "returned"]
  /\ UNCHANGED <<flusher, histVars, workerVars, ackVars, metrics, redisVars,
                 tasks, restVars>>

(***************************************************************************)
(* Spec: the worker, its producers and every outcome of its environment,   *)
(* for streams of at most MaxLog entries                                   *)
(***************************************************************************)
SettingsSet ==
  [REDIS_MAX_RETRY : {1, 2}, MAX_CONCURRENCY : {1, 2},
   BATCH_ACK_ENABLED : BOOLEAN]

ProducerAttempts == {Absent, 0, 1}

Init == InitWith(SettingsSet)

Producer ==
  /\ Len(log) < MaxLog
  /\ \E s \in StreamSet, hls \in BOOLEAN, attempt \in ProducerAttempts :
       Produce(s, hls, attempt)

Requeue(e) == Len(log) < MaxLog /\ RequeueMessage(e)

Next ==
  \/ Producer
  \/ Start
  \/ ConsumeLoop
  \/ ConsumeLoopNoGroup
  \/ \E e \in Ids : ProcessMessageBegin(e)
  \/ \E e \in Ids : ProcessMessageGpuBusy(e)
  \/ \E e \in Ids : AdapterRaises(e)
  \/ \E e \in Ids : AdapterSucceeds(e)
  \/ \E e \in Ids : AdapterHlsUnreachable(e)
  \/ \E e \in Ids : Requeue(e)
  \/ \E e \in Ids : RequeueMessageFails(e)
  \/ \E e \in Ids : MoveToDlq(e)
  \/ \E e \in Ids : MoveToDlqFails(e)
  \/ \E e \in Ids : ScheduleAck(e)
  \/ \E e \in Ids : ScheduleAckImmediate(e)
  \/ \E e \in Ids : ScheduleAckImmediateFails(e)
  \/ AckFlushLoop
  \/ FlushAcksXAck
  \/ FlushAcksXAckFails

Spec == Init /\ [][Next]_vars

(***************************************************************************)
(* JobSpec: one job and the chain of its requeued copies, up to MaxChain   *)
(* entries, under every outcome of the environment                         *)
(***************************************************************************)
JobSettings ==
  [REDIS_MAX_RETRY : {1, 2, 3}, MAX_CONCURRENCY : {2},
   BATCH_ACK_ENABLED : BOOLEAN]

JobAttempts == {Absent, 0, 1, 2, 3}

JobInit == InitWith(JobSettings)

JobProducer ==
  /\ log = <<>>
  /\ \E s \in StreamSet, hls \in BOOLEAN, attempt \in JobAttempts :
       Produce(s, hls, attempt)

JobRequeue(e) == Len(log) < MaxChain /\ RequeueMessage(e)

JobNext ==
  \/ JobProducer
  \/ Start
  \/ ConsumeLoop
  \/ ConsumeLoopNoGroup
  \/ \E e \in Ids : ProcessMessageBegin(e)
  \/ \E e \in Ids : ProcessMessageGpuBusy(e)
  \/ \E e \in Ids : AdapterRaises(e)
  \/ \E e \in Ids : AdapterSucceeds(e)
  \/ \E e \in Ids : AdapterHlsUnreachable(e)
  \/ \E e \in Ids : JobRequeue(e)
  \/ \E e \in Ids : RequeueMessageFails(e)
  \/ \E e \in Ids : MoveToDlq(e)
  \/ \E e \in Ids : MoveToDlqFails(e)
  \/ \E e \in Ids : ScheduleAckImmediate(e)
  \/ \E e \in Ids : ScheduleAckImmediateFails(e)
  \/ AckFlushLoop
  \/ FlushAcksXAck
  \/ FlushAcksXAckFails

JobSpec == JobInit /\ [][JobNext]_vars

(***************************************************************************)
(* LoadSpec: up to MaxLoad entries at once on both streams, with batch ack *)
(* and concurrency 1 or 2; the adapter succeeds or raises, and every Redis *)
(* call of a task or of the flush may fail                                 *)
(***************************************************************************)
LoadSettings ==
  [REDIS_MAX_RETRY : {1}, MAX_CONCURRENCY : {1, 2},
   BATCH_ACK_ENABLED : {TRUE}]

LoadInit == InitWith(LoadSettings)

LoadProducer ==
  /\ Len(log) < MaxLoad
  /\ \E s \in StreamSet : Produce(s, TRUE, Absent)

LoadRequeue(e) == Len(log) < MaxLoad /\ RequeueMessage(e)

LoadNext ==
  \/ LoadProducer
  \/ Start
  \/ ConsumeLoop
  \/ \E e \in Ids : ProcessMessageBegin(e)
  \/ \E e \in Ids : AdapterRaises(e)
  \/ \E e \in Ids : AdapterSucceeds(e)
  \/ \E e \in Ids : LoadRequeue(e)
  \/ \E e \in Ids : RequeueMessageFails(e)
  \/ \E e \in Ids : MoveToDlq(e)
  \/ \E e \in Ids : MoveToDlqFails(e)
  \/ \E e \in Ids : ScheduleAck(e)
  \/ AckFlushLoop
  \/ FlushAcksXAck
  \/ FlushAcksXAckFails

LoadSpec == LoadInit /\ [][LoadNext]_vars

(***************************************************************************)
(* ReclaimSpec: the reclamation loop next to the consumption loop, a       *)
(* second consumer that stops after reading, and the clock; the worker may *)
(* find a backlog of one entry more than an xautoclaim takes               *)
(***************************************************************************)
ReclaimSettings ==
  [REDIS_MAX_RETRY : {3}, MAX_CONCURRENCY : {2}, BATCH_ACK_ENABLED : {TRUE}]

ReclaimBacklogs == {0, XAUTOCLAIM_COUNT + 1}

ReclaimInit ==
  /\ WorkerInit(ReclaimSettings)
  /\ \E n \in ReclaimBacklogs : Backlog(n)

ReclaimProducer ==
  /\ Len(log) < MaxReclaim
  /\ \E s \in StreamSet : Produce(s, TRUE, Absent)

ReclaimNext ==
  \/ ReclaimProducer
  \/ Start
  \/ ConsumeLoop
  \/ OtherRead
  \/ Tick
  \/ VisibilityTimeoutLoop
  \/ \E e \in Ids : ProcessMessageBegin(e)
  \/ \E e \in Ids : AdapterSucceeds(e)
  \/ AckFlushLoop
  \/ FlushAcksXAck

ReclaimSpec == ReclaimInit /\ [][ReclaimNext]_vars

(***************************************************************************)
(* RetrySpec: the retry-budget scenario.  The worker runs, one entry with  *)
(* attempt 0 is appended, the adapter raises on every delivery, the GPU    *)
(* guard passes and Redis answers every call; each loop and each task      *)
(* keeps running (weak fairness)                                           *)
(***************************************************************************)
RetrySettings ==
  [REDIS_MAX_RETRY : {1, 2, 3}, MAX_CONCURRENCY : {2},
   BATCH_ACK_ENABLED : BOOLEAN]

RetryInit == InitWith(RetrySettings)

RetryProducer ==
  /\ running
  /\ log = <<>>
  /\ \E s \in StreamSet : Produce(s, TRUE, 0)

RetryTask(e) ==
  /\ e \in Ids
  /\ \/ ProcessMessageBegin(e)
     \/ AdapterRaises(e)
     \/ JobRequeue(e)
     \/ MoveToDlq(e)
     \/ ScheduleAckImmediate(e)

RetryFlush == AckFlushLoop \/ FlushAcksXAck

RetryNext ==
  \/ RetryProducer
  \/ Start
  \/ ConsumeLoop
  \/ \E e \in Ids : ProcessMessageBegin(e)
  \/ \E e \in Ids : AdapterRaises(e)
  \/ \E e \in Ids : JobRequeue(e)
  \/ \E e \in Ids : MoveToDlq(e)
  \/ \E e \in Ids : ScheduleAckImmediate(e)
  \/ AckFlushLoop
  \/ FlushAcksXAck

RetrySpec ==
  /\ RetryInit
  /\ [][RetryNext]_vars
  /\ WF_vars(RetryProducer)
  /\ WF_vars(Start)
  /\ WF_vars(ConsumeLoop)
  /\ WF_vars(RetryFlush)
  /\ \A e \in 1..MaxChain : WF_vars(RetryTask(e))

(***************************************************************************)
(* FairJobSpec: JobSpec in which every loop and every task keeps running;  *)
(* which outcome the environment gives stays free                          *)
(***************************************************************************)
JobTask(e) ==
  /\ e \in Ids
  /\ \/ ProcessMessageBegin(e)
     \/ ProcessMessageGpuBusy(e)
     \/ AdapterRaises(e)
     \/ AdapterSucceeds(e)
     \/ AdapterHlsUnreachable(e)
     \/ JobRequeue(e)
     \/ RequeueMessageFails(e)
     \/ MoveToDlq(e)
     \/ MoveToDlqFails(e)
     \/ ScheduleAckImmediate(e)
     \/ ScheduleAckImmediateFails(e)

JobFlush == AckFlushLoop \/ FlushAcksXAck \/ FlushAcksXAckFails

FairJobSpec ==
  /\ JobInit
  /\ [][JobNext]_vars
  /\ WF_vars(Start)
  /\ WF_vars(ConsumeLoop)
  /\ WF_vars(ConsumeLoopNoGroup)
  /\ WF_vars(JobFlush)
  /\ \A e \in 1..MaxChain : WF_vars(JobTask(e))

(***************************************************************************)
(* FairReclaimSpec: ReclaimSpec from an empty Redis, in which every loop   *)
(* and every task keeps running                                            *)
(***************************************************************************)
ReclaimTask(e) ==
  /\ e \in Ids
  /\ (ProcessMessageBegin(e) \/ AdapterSucceeds(e))

FairReclaimSpec ==
  /\ InitWith(ReclaimSettings)
  /\ [][ReclaimNext]_vars
  /\ WF_vars(Start)
  /\ WF_vars(ConsumeLoop)
  /\ WF_vars(VisibilityTimeoutLoop)
  /\ WF_vars(RetryFlush)
  /\ \A e \in 1..MaxReclaim : WF_vars(ReclaimTask(e))

(***************************************************************************)
(* AckSpec: acknowledgments of entries that completed, where any caller     *)
(* may hand the id of a delivered entry to _schedule_ack again              *)
(***************************************************************************)
AckSettings ==
  [REDIS_MAX_RETRY : {1}, MAX_CONCURRENCY : {2}, BATCH_ACK_ENABLED : BOOLEAN]

AckInit == InitWith(AckSettings)

AckProducer ==
  /\ Len(log) < MaxLog
  /\ \E s \in StreamSet : Produce(s, TRUE, Absent)

AckNext ==
  \/ AckProducer
  \/ Start
  \/ ConsumeLoop
  \/ \E e \in Ids : ProcessMessageBegin(e)
  \/ \E e \in Ids : AdapterSucceeds(e)
  \/ \E e \in Ids : ScheduleAck(e)
  \/ \E e \in Ids : ScheduleAckImmediate(e)
  \/ \E e \in Ids : ScheduleAckImmediateFails(e)
  \/ \E e \in Ids : ScheduleAckCall(e)
  \/ AckFlushLoop
  \/ FlushAcksXAck
  \/ FlushAcksXAckFails

AckSpec == AckInit /\ [][AckNext]_vars

(***************************************************************************)
(* LifeSpec: start() and stop() called at any time and in any order, with  *)
(* every way into and out of the three loops, and jobs going through with  *)
(* batch ack                                                               *)
(***************************************************************************)
LifeSettings ==
  [REDIS_MAX_RETRY : {1}, MAX_CONCURRENCY : {2}, BATCH_ACK_ENABLED : {TRUE}]

LifeInit == InitWith(LifeSettings)

LifeProducer ==
  /\ Len(log) < MaxLifeLog
  /\ \E s \in StreamSet : Produce(s, TRUE, Absent)

LifeNext ==
  \/ LifeProducer
  \/ Start
  \/ StartNoOp
  \/ Stop
  \/ ConsumeLoop
  \/ ConsumeLoopNoGroup
  \/ \E g \in Starts : ConsumeLoopNoGroupFails(g)
  \/ \E g \in Starts : ConsumeLoopResponseError(g)
  \/ \E g \in Starts : ConsumeLoopException(g)
  \/ \E g \in Starts : ConsumeLoopWake(g)
  \/ \E g \in Starts : ConsumeLoopExit(g)
  \/ \E g \in Starts : ConsumeLoopLastRead(g)
  \/ VisibilityTimeoutLoop
  \/ \E g \in Starts : VisibilityTimeoutLoopExit(g)
  \/ AckFlushLoop
  \/ \E g \in Starts : AckFlushLoopExit(g)
  \/ FlushAcksXAck
  \/ FlushAcksXAckFails
  \/ \E e \in Ids : ProcessMessageBegin(e)
  \/ \E e \in Ids : AdapterSucceeds(e)
  \/ \E e \in Ids : ScheduleAck(e)
  \/ \E g \in Starts : StartCancelled(g)
  \/ \E g \in Starts : StartGathered(g)
  \/ \E g \in Starts : StartFlushAcks(g)
  \/ \E g \in Starts : StartClose(g)

LifeSpec == LifeInit /\ [][LifeNext]_vars

(***************************************************************************)
(* ShutdownSpec: one start() and any number of stop(); every sleep and     *)
(* every blocking read ends, Redis answers the xack of a flush, and the    *)
(* coroutine of start() is scheduled (weak fairness)                       *)
(***************************************************************************)
ShutdownSettings ==
  [REDIS_MAX_RETRY : {1}, MAX_CONCURRENCY : {2}, BATCH_ACK_ENABLED : BOOLEAN]

ShutdownInit == InitWith(ShutdownSettings)

FirstStart == starts = <<>> /\ Start

ShutdownNext ==
  \/ LifeProducer
  \/ FirstStart
  \/ StartNoOp
  \/ Stop
  \/ ConsumeLoop
  \/ ConsumeLoopNoGroup
  \/ \E g \in Starts : ConsumeLoopNoGroupFails(g)
  \/ \E g \in Starts : ConsumeLoopResponseError(g)
  \/ \E g \in Starts : ConsumeLoopException(g)
  \/ \E g \in Starts : ConsumeLoopWake(g)
  \/ \E g \in Starts : ConsumeLoopExit(g)
  \/ \E g \in Starts : ConsumeLoopLastRead(g)
  \/ VisibilityTimeoutLoop
  \/ \E g \in Starts : VisibilityTimeoutLoopExit(g)
  \/ AckFlushLoop
  \/ \E g \in Starts : AckFlushLoopExit(g)
  \/ FlushAcksXAck
  \/ FlushAcksXAckFails
  \/ \E e \in Ids : ProcessMessageBegin(e)
  \/ \E e \in Ids : AdapterSucceeds(e)
  \/ \E e \in Ids : ScheduleAck(e)
  \/ \E e \in Ids : ScheduleAckImmediate(e)
  \/ \E g \in Starts : StartCancelled(g)
  \/ \E g \in Starts : StartGathered(g)
  \/ \E g \in Starts : StartFlushAcks(g)
  \/ \E g \in Starts : StartClose(g)

\* the consumption loop of the first start() gets past its read or its sleep
ConsumeLoopGoesOn ==
  /\ starts # <<>>
  /\ ConsumeLoopWake(1) \/ ConsumeLoopExit(1) \/ ConsumeLoopLastRead(1)

\* the reclamation loop goes through its streams and its sleep
VisibilityTimeoutLoopGoesOn ==
  /\ starts # <<>>
  /\ VisibilityTimeoutLoop \/ VisibilityTimeoutLoopExit(1)

\* the flush loop and whoever is inside _flush_acks
FlushGoesOn ==
  /\ starts # <<>>
  /\ AckFlushLoop \/ AckFlushLoopExit(1) \/ FlushAcksXAck \/ FlushAcksXAckFails

\* start() after its gather
StartGoesOn ==
  /\ starts # <<>>
  /\ StartGathered(1) \/ StartFlushAcks(1) \/ StartClose(1)

ShutdownSpec ==
  /\ ShutdownInit
  /\ [][ShutdownNext]_vars
  /\ WF_vars(ConsumeLoopGoesOn)
  /\ WF_vars(VisibilityTimeoutLoopGoesOn)
  /\ WF_vars(FlushGoesOn)
  /\ WF_vars(StartGoesOn)

(***************************************************************************)
(* FieldsSpec: one job whose "attempt" is absent, an integer, or no        *)
(* integer, and whose hls is empty or not, under every outcome of the      *)
(* adapter and of Redis                                                    *)
(***************************************************************************)
FieldsAttempts == {Absent, 0, 1, Malformed}

FieldsProducer ==
  /\ log = <<>>
  /\ \E s \in StreamSet, hls \in BOOLEAN, attempt \in FieldsAttempts :
       Produce(s, hls, attempt)

FieldsNext ==
  \/ FieldsProducer
  \/ Start
  \/ ConsumeLoop
  \/ \E e \in Ids : ProcessMessageBegin(e)
  \/ \E e \in Ids : AdapterRaises(e)
  \/ \E e \in Ids : AdapterSucceeds(e)
  \/ \E e \in Ids : JobRequeue(e)
  \/ \E e \in Ids : RequeueMessageFails(e)
  \/ \E e \in Ids : MoveToDlq(e)
  \/ \E e \in Ids : MoveToDlqFails(e)
  \/ \E e \in Ids : ScheduleAckImmediate(e)
  \/ \E e \in Ids : ScheduleAckImmediateFails(e)
  \/ AckFlushLoop
  \/ FlushAcksXAck
  \/ FlushAcksXAckFails

FieldsSpec == JobInit /\ [][FieldsNext]_vars

(***************************************************************************)
(* ConcSpec: update_concurrency called while tasks are created, wait and   *)
(* run; no batch ack                                                       *)
(***************************************************************************)
ConcSettings ==
  [REDIS_MAX_RETRY : {1}, MAX_CONCURRENCY : {1, 2},
   BATCH_ACK_ENABLED : {FALSE}]

ConcValues == {0, 1, 2}

ConcInit == InitWith(ConcSettings)

ConcProducer ==
  /\ Len(log) < MaxLoad
  /\ Produce(streams[1], TRUE, Absent)

ConcNext ==
  \/ ConcProducer
  \/ Start
  \/ ConsumeLoop
  \/ \E n \in ConcValues : UpdateConcurrency(n)
  \/ \E e \in Ids : ProcessMessageWait(e)
  \/ \E e \in Ids : ProcessMessageBegin(e)
  \/ \E e \in Ids : AdapterSucceeds(e)
  \/ \E e \in Ids : ScheduleAckImmediate(e)

ConcSpec == ConcInit /\ [][ConcNext]_vars

(***************************************************************************)
(* HlsSpec: one job whose source is unreachable on every delivery, with a  *)
(* general retry budget below and above the limit of these retries         *)
(***************************************************************************)
HlsSettings ==
  [REDIS_MAX_RETRY : {1, 5}, MAX_CONCURRENCY : {2},
   BATCH_ACK_ENABLED : BOOLEAN]

HlsAttempts == {Absent, 0, 1, 3}

HlsInit == InitWith(HlsSettings)

HlsProducer ==
  /\ log = <<>>
  /\ \E s \in StreamSet, attempt \in HlsAttempts : Produce(s, TRUE, attempt)

HlsNext ==
  \/ HlsProducer
  \/ Start
  \/ ConsumeLoop
  \/ \E e \in Ids : ProcessMessageBegin(e)
  \/ \E e \in Ids : AdapterHlsUnreachable(e)
  \/ \E e \in Ids : JobRequeue(e)
  \/ \E e \in Ids : RequeueMessageFails(e)
  \/ \E e \in Ids : ScheduleAckImmediate(e)
  \/ \E e \in Ids : ScheduleAckImmediateFails(e)
  \/ AckFlushLoop
  \/ FlushAcksXAck
  \/ FlushAcksXAckFails

HlsSpec == HlsInit /\ [][HlsNext]_vars

(***************************************************************************)
(* RecoverSpec: one job appended after the worker has connected, every     *)
(* outcome of its task and of the xadd of a requeue, the clock and the     *)
(* reclamation loop; every loop and every task keeps running               *)
(***************************************************************************)
RecoverSettings ==
  [REDIS_MAX_RETRY : {2}, MAX_CONCURRENCY : {2}, BATCH_ACK_ENABLED : {FALSE}]

RecoverInit == InitWith(RecoverSettings)

RecoverProducer ==
  /\ log = <<>>
  /\ redis_client # "none"
  /\ \E s \in StreamSet : Produce(s, TRUE, Absent)

RecoverNext ==
  \/ RecoverProducer
  \/ Start
  \/ ConsumeLoop
  \/ Tick
  \/ VisibilityTimeoutLoop
  \/ \E e \in Ids : ProcessMessageBegin(e)
  \/ \E e \in Ids : ProcessMessageGpuBusy(e)
  \/ \E e \in Ids : AdapterRaises(e)
  \/ \E e \in Ids : AdapterSucceeds(e)
  \/ \E e \in Ids : AdapterHlsUnreachable(e)
  \/ \E e \in Ids : JobRequeue(e)
  \/ \E e \in Ids : RequeueMessageFails(e)
  \/ \E e \in Ids : MoveToDlq(e)
  \/ \E e \in Ids : MoveToDlqFails(e)
  \/ \E e \in Ids : ScheduleAckImmediate(e)
  \/ \E e \in Ids : ScheduleAckImmediateFails(e)

RecoverSpec ==
  /\ RecoverInit
  /\ [][RecoverNext]_vars
  /\ WF_vars(Start)
  /\ WF_vars(ConsumeLoop)
  /\ WF_vars(Tick)
  /\ WF_vars(VisibilityTimeoutLoop)
  /\ \A e \in 1..MaxChain : WF_vars(JobTask(e))

(***************************************************************************)
(* FailSpec: start(), stop() and the cancellation of start() in any order, *)
(* where Redis may be out of reach at the first start(); no entries        *)
(***************************************************************************)
FailInit == InitWith(LifeSettings)

FailNext ==
  \/ Start
  \/ StartConnectFails
  \/ StartNoOp
  \/ Stop
  \/ \E g \in Starts : ConsumeLoopException(g)
  \/ \E g \in Starts : ConsumeLoopWake(g)
  \/ \E g \in Starts : ConsumeLoopExit(g)
  \/ VisibilityTimeoutLoop
  \/ \E g \in Starts : VisibilityTimeoutLoopExit(g)
  \/ \E g \in Starts : AckFlushLoopExit(g)
  \/ \E g \in Starts : StartLoopRaised(g)
  \/ \E g \in Starts : StartCancelled(g)
  \/ \E g \in Starts : StartGathered(g)
  \/ \E g \in Starts : StartFlushAcks(g)
  \/ \E g \in Starts : StartClose(g)

FailSpec == FailInit /\ [][FailNext]_vars

(***************************************************************************)
(* RegistrySpec: the counter registry alone, under the calls the worker    *)
(* makes (increment by one, decrement of the gauge, set of the two gauges  *)
(* to a count), with a name the registry does not know among them, reset() *)
(* and get_all(), in any order                                             *)
(***************************************************************************)
RegistrySettings ==
  [REDIS_MAX_RETRY : {1}, MAX_CONCURRENCY : {1}, BATCH_ACK_ENABLED : {TRUE}]

UnknownName == "unknown"

RegistryInit == InitWith(RegistrySettings)

Registry(m) ==
  /\ metrics' = m
  /\ UNCHANGED <<lifeVars, histVars, workerVars, ackVars, redisVars, tasks,
                 restVars>>

MetricsIncrement ==
  \E c \in {"processed", "failed", "retried", "dlq", "concurrency_current",
             UnknownName} :
    /\ c \in DOMAIN metrics => metrics[c] < MaxCount
    /\ Registry(Increment(metrics, c))

MetricsDecrement ==
  \E c \in {"concurrency_current", UnknownName} :
    Registry(Decrement(metrics, c))

\* set("pending", <count of pending entries>), set("concurrency_current", 0)
MetricsSet ==
  \/ \E c \in {"pending", UnknownName}, n \in 0..MaxCount :
       Registry(Set(metrics, c, n))
  \/ Registry(Set(metrics, "concurrency_current", 0))

MetricsReset == Registry(Reset(metrics))

\* get_all() returns a copy of the counters
MetricsGetAll == Registry(metrics)

RegistryNext ==
  \/ MetricsIncrement
  \/ MetricsDecrement
  \/ MetricsSet
  \/ MetricsReset
  \/ MetricsGetAll

RegistrySpec == RegistryInit /\ [][RegistryNext]_vars

(***************************************************************************)
(* Properties                                                              *)
(***************************************************************************)
\* entry j is entry i or a requeued copy derived from it
RECURSIVE DerivedFrom(_, _)
DerivedFrom(j, i) ==
  \/ j = i
  \/ j > i /\ log[j].parent # 0 /\ DerivedFrom(log[j].parent, i)

\* a task of the job of entry i has incremented "processed", or an entry
\* derived from it is in the dead-letter stream with a final error
Served(i) ==
  /\ i \in Ids
  /\ \E j \in Ids :
       /\ DerivedFrom(j, i)
       /\ \/ j \in processedIds
          \/ \E d \in 1..Len(dlq) :
               dlq[d].parent = j /\ dlq[d].final_error # ""

\* the job of entry i has a copy to append that the bound MaxChain leaves out
BeyondChain(i) ==
  /\ i \in Ids
  /\ Len(log) = MaxChain
  /\ \E j \in Ids : DerivedFrom(j, i) /\ tasks[j].pc = "requeue"

\* C1: at-least-once delivery: every entry appended to a stream is eventually
\* counted as processed, itself or through a requeued copy, or an entry
\* derived from it reaches the dead-letter stream with a non-empty final
\* error (jobs whose chain outgrows MaxChain are left out)
C1_AtLeastOnce ==
  \A i \in 1..MaxChain : (i \in Ids) ~> (Served(i) \/ BeyondChain(i))

\* the task of entry e failed with an exception and its entry is out of retries
FailedForGood(e) ==
  /\ tasks[e].error \in {"adapter_error", "empty_hls"}
  /\ AttemptOf(log[e]) >= settings.REDIS_MAX_RETRY

\* C2: when a task that failed with attempt >= REDIS_MAX_RETRY is scheduling
\* or has scheduled the acknowledgment of its entry, a dead-letter entry with
\* that entry's fields and the final error is already in the dead-letter
\* stream
C2_DlqBeforeAck ==
  \A e \in Ids :
    FailedForGood(e) /\ tasks[e].pc \in {"ack", "done"} =>
      \E d \in 1..Len(dlq) : dlq[d] = DlqFields(e, tasks[e].error)

\* C3: every requeued copy has attempt exactly one greater than the entry it
\* was derived from, and every dead-letter entry was appended by a task whose
\* entry has attempt >= REDIS_MAX_RETRY
C3_AttemptMonotonicity ==
  /\ \A i \in Ids :
       log[i].parent # 0 =>
         log[i].attempt = AttemptOf(log[log[i].parent]) + 1
  /\ \A d \in 1..Len(dlq) :
       AttemptOf(log[dlq[d].parent]) >= settings.REDIS_MAX_RETRY

\* a job went through two requeues and was then dead-lettered
C3_Witness ==
  /\ dlq # <<>>
  /\ \E i \in Ids : /\ log[i].parent # 0
                    /\ log[log[i].parent].parent # 0
                    /\ dlq[1].parent = i

\* an entry has been delivered and is no longer pending
Acked(i) == tasks[i].pc # "none" /\ i \notin Pending

\* what the retry-budget scenario allows at any time: the copies carry the
\* attempts 1, 2, ... in order, there are at most REDIS_MAX_RETRY of them, and
\* one dead-letter entry at most, made from the copy with attempt
\* REDIS_MAX_RETRY, which is the only entry that is acknowledged
C4_Safe ==
  /\ Len(log) <= settings.REDIS_MAX_RETRY + 1
  /\ \A i \in Ids : log[i].attempt = i - 1 /\ log[i].parent = i - 1
  /\ metrics["retried"] = Max(0, Len(log) - 1)
  /\ Len(dlq) <= 1
  /\ metrics["dlq"] = Len(dlq)
  /\ dlq # <<>> =>
       /\ Len(log) = settings.REDIS_MAX_RETRY + 1
       /\ dlq[1] = DlqFields(Len(log), "adapter_error")
       /\ dlq[1].attempt = settings.REDIS_MAX_RETRY
  /\ \A i \in Ids : Acked(i) => i = settings.REDIS_MAX_RETRY + 1 /\ dlq # <<>>

\* the end of the scenario
C4_Done ==
  /\ Len(log) = settings.REDIS_MAX_RETRY + 1
  /\ Len(dlq) = 1
  /\ tasks[Len(log)].pc = "done"
  /\ Acked(Len(log))

\* C4: retry budget: with the adapter always raising, an entry appended with
\* attempt 0 gets exactly REDIS_MAX_RETRY requeued copies with attempts
\* 1..REDIS_MAX_RETRY in order, then one dead-letter entry with the final
\* error and the acknowledgment of the last copy, and nothing more afterwards
C4_RetryBudget == []C4_Safe /\ <>[]C4_Done

\* the scenario has run to its end with the default budget of 3
C4_Witness == settings.REDIS_MAX_RETRY = 3 /\ log # <<>> /\ C4_Done

\* C5: a requeue caused by the GPU guard leaves attempt as it was, and the
\* adapter is not called for a delivery that the guard rejected
C5_CongestionExemption ==
  /\ \A i \in Ids :
       log[i].parent # 0 /\ log[i].last_error = "gpu_memory" =>
         AttemptOf(log[i]) = AttemptOf(log[log[i].parent])
  /\ \A e \in Ids :
       tasks[e].error = "gpu_memory" => tasks[e].pc \in {"requeue", "done"}

\* the tasks inside "async with self.semaphore"
Inside == {e \in Ids : tasks[e].pc \in InGate}

Waiting == {e \in Ids : tasks[e].pc = "sem"}

\* C6: with MAX_CONCURRENCY = k never changed, at most k tasks are inside the
\* gated section, and the free permits are exactly k minus the tasks inside:
\* a task that leaves makes room for one task, and one only
C6_BoundedConcurrency ==
  /\ Cardinality(Inside) <= settings.MAX_CONCURRENCY
  /\ semaphores[semaphore] = settings.MAX_CONCURRENCY - Cardinality(Inside)

\* two tasks fill the gate of size 2 and a third one waits
C6_Witness ==
  /\ settings.MAX_CONCURRENCY = 2
  /\ Cardinality(Inside) = 2
  /\ Waiting # {}

\* the pending entries of stream s that an xautoclaim of this worker takes
Due(s) ==
  FirstN({i \in IdsOf(s) :
            i \in Pending /\ IdleMs(i) >= REDIS_VISIBILITY_TIMEOUT * 1000},
         XAUTOCLAIM_COUNT)

\* delivered to a consumer and not yet passed to XACK
Unacked(i) ==
  /\ i <= group[log[i].stream].last_delivered
  /\ i \notin Range(sent[log[i].stream])

C7_OneOwner ==
  \A i \in Ids :
    /\ Cardinality({c \in Consumers : i \in pel[c]}) <= 1
    /\ Unacked(i) => i \in Pending

C7_Transfer ==
  /\ \A i \in Ids :
       i \in pel[other_consumer] /\ i \in pel'[consumer_name] =>
         IdleMs(i) >= REDIS_VISIBILITY_TIMEOUT * 1000
  /\ reclaim' # reclaim /\ group[streams[reclaim]].has_group =>
       \A i \in IdsOf(streams[reclaim]) :
         IF i \in Due(streams[reclaim])
         THEN i \in pel'[consumer_name]
         ELSE \A c \in Consumers : i \in pel'[c] <=> i \in pel[c]

\* C7: an entry that another consumer owns passes to this worker only when it
\* has been idle for at least REDIS_VISIBILITY_TIMEOUT; a pass of the
\* reclamation loop over a stream takes every such entry of it, up to the
\* count of one xautoclaim, and no other; and a pending entry has one owner
C7_Reclamation == []C7_OneOwner /\ [][C7_Transfer]_vars

\* a pass took as many entries as one xautoclaim takes and left one that is
\* due with its owner
C7_Witness ==
  /\ Cardinality(reclaimedIds \cap pel[consumer_name]) = XAUTOCLAIM_COUNT
  /\ \E i \in pel[other_consumer] :
       IdleMs(i) >= REDIS_VISIBILITY_TIMEOUT * 1000

\* C8: the reclamation loop creates no task, and every entry it reclaims is
\* later returned by a read of a consumption loop: as the entries are finitely
\* many, from some time on every reclaimed entry has been returned by a read
C8_ReclaimedAreRedelivered ==
  /\ [][reclaim' # reclaim => tasks' = tasks]_vars
  /\ <>[](reclaimedIds \subseteq redelivered)

\* C9: one XACK per stream and flush: it carries the whole buffer of the
\* stream in the order of scheduling, so that every id scheduled for the
\* stream so far has been sent, and the stream is not visited again in the
\* same flush
C9_AckCoalescing ==
  [][\A s \in StreamSet :
       sent'[s] # sent[s] =>
         /\ flush'.pc = "xack"
         /\ flush'.stream = s
         /\ flush'.batch = ack_buffers[s]
         /\ sent'[s] = sent[s] \o ack_buffers[s]
         /\ sent'[s] = scheduled[s]
         /\ s \notin Range(flush'.todo)]_vars

\* an XACK in flight that carries two ids or more
C9_Witness == flush.pc = "xack" /\ Len(flush.batch) >= 2

Count(x, seq) == Cardinality({k \in 1..Len(seq) : seq[k] = x})

\* C10: every id scheduled is either in the buffer of its stream or in the
\* ids sent with XACK, once and in one of the two only, and nothing else is
\* in them
C10_AckBufferAtomicity ==
  \A s \in StreamSet :
    /\ \A e \in Ids :
         /\ Count(e, scheduled[s]) <= 1
         /\ Count(e, sent[s]) + Count(e, ack_buffers[s]) = Count(e, scheduled[s])
    /\ sent[s] \o ack_buffers[s] = scheduled[s]

\* a task waits in _schedule_ack while the XACK of a flush is in flight, and an
\* earlier id of its stream has gone out with it
C10_Witness ==
  /\ flush.pc = "xack"
  /\ \E e \in Ids : /\ tasks[e].pc = "ack"
                    /\ log[e].stream = flush.stream

ConsumeLoops == {g \in Starts : starts[g].consume \in {"read", "sleep"}}

VisibilityTimeoutLoops == {g \in Starts : starts[g].reclaim = "run"}

AckFlushLoops == {g \in Starts : starts[g].ackflush \in {"sleep", "flush"}}

\* C12: however start() and stop() are called, at most one consumption loop,
\* one reclamation loop and one flush loop of the worker exist at any time
\* (start() while running is StartNoOp, which changes nothing)
C12_OneSetOfLoops ==
  /\ Cardinality(ConsumeLoops) <= 1
  /\ Cardinality(VisibilityTimeoutLoops) <= 1
  /\ Cardinality(AckFlushLoops) <= 1

\* every start() has returned, its loops are gone and the client is closed
ShutDown ==
  /\ redis_client = "closed"
  /\ \A g \in Starts :
       /\ starts[g].pc = "returned"
       /\ starts[g].consume \in {"exited", "cancelled"}
       /\ starts[g].reclaim \in {"exited", "cancelled"}
       /\ starts[g].ackflush \in {"exited", "cancelled"}

\* the last flush of start(): none before its loops are done, one before the
\* client is closed
OneLastFlush ==
  \A g \in Starts :
    /\ starts[g].pc = "gather" => starts[g].flushes = 0
    /\ starts[g].pc \in {"close", "returned"} => starts[g].flushes = 1
    /\ starts[g].pc # "returned" => redis_client # "closed"

\* once stop() has been called no task is created, and a loop of start() that
\* ends does so with the flag down
StoppedLoops ==
  /\ ~running => \A i \in Ids : tasks[i].pc = "none" => tasks'[i].pc = "none"
  /\ \A g \in Starts :
       /\ starts[g].consume # "exited" /\ starts'[g].consume = "exited"
            => ~running
       /\ starts[g].reclaim # "exited" /\ starts'[g].reclaim = "exited"
            => ~running /\ reclaim = 1
       /\ starts[g].ackflush # "exited" /\ starts'[g].ackflush = "exited"
            => ~running /\ flush'.pc = "sleep"

\* C13: after stop() the consumption loop ends with its read (no task is
\* created any more), the reclamation loop and the flush loop end with their
\* sleep, and start() completes: it flushes the acks once, then closes the
\* client
C13_Shutdown ==
  /\ []OneLastFlush
  /\ [][StoppedLoops]_vars
  /\ (starts # <<>> /\ ~running) ~> ShutDown

\* start() has returned after stop(), its loops having ended by themselves,
\* and a job was processed and acknowledged
C13_Witness ==
  /\ ShutDown
  /\ ~running
  /\ starts # <<>>
  /\ starts[1].consume = "exited"
  /\ ackedIds # {}
  /\ metrics["processed"] > 0

C14_GroupEstablished ==
  redis_client # "none" => \A s \in StreamSet : group[s].has_group

\* C16: no exception leaves a task: whatever the fields and whatever fails,
\* a task ends with the ack scheduled, the entry requeued, or the entry in
\* the dead-letter stream and the ack scheduled
C16_NoExceptionEscapes ==
  \A e \in Ids : tasks[e].pc # "raised"

\* the tasks that hold a permit of semaphore k
Holders(k) == {e \in Ids : tasks[e].pc \in InGate /\ tasks[e].sem = k}

\* C17: the semaphore of update_concurrency(n) holds Clamped(n) >= 1 permits
\* and gates every task created after the call (a task never goes through a
\* semaphore older than the one in place when it was created), at most that
\* many at a time; the call changes no task and no permit of an older
\* semaphore, whose holders go on
C17_UpdateConcurrency ==
  /\ [](/\ current_concurrency = limits[semaphore]
        /\ \A k \in 1..Len(semaphores) :
             /\ limits[k] >= 1
             /\ Cardinality(Holders(k)) + semaphores[k] = limits[k]
        /\ \A e \in Ids : tasks[e].sem # 0 => tasks[e].sem >= tasks[e].born)
  /\ [][semaphore' # semaphore =>
          /\ tasks' = tasks
          /\ semaphore' = Len(semaphores) + 1
          /\ \A k \in 1..Len(semaphores) : semaphores'[k] = semaphores[k]
       ]_vars

\* a task created after update_concurrency holds a permit of the new
\* semaphore while one created before still holds a permit of the old one
C17_Witness ==
  \E a, b \in Ids :
    /\ tasks[a].pc = "adapter" /\ tasks[a].sem = 1
    /\ tasks[b].pc = "adapter" /\ tasks[b].sem = 2 /\ tasks[b].born = 2
    /\ limits[1] # limits[2]

\* the ack of entry e has been scheduled or sent
AckScheduled(e) ==
  \/ e \in ackedIds
  \/ \E s \in StreamSet : e \in Range(scheduled[s])
  \/ tasks[e].pc = "ack"

\* the requeued copies in the log
Copies == {j \in Ids : log[j].parent # 0}

\* C18: with the source unreachable on every delivery, an entry is requeued,
\* and neither acknowledged nor counted as processed, exactly while its
\* attempt is below 3, whatever REDIS_MAX_RETRY is; from attempt 3 on the
\* task completes: "processed" is counted, _schedule_ack is called, and there
\* is no copy and no dead-letter entry; so a job is requeued 3 times at most
C18_HlsSubLimit ==
  /\ [](/\ dlq = <<>>
        /\ metrics["dlq"] = 0
        /\ metrics["processed"] = Cardinality(processedIds)
        /\ Cardinality(Copies) <= HLS_MAX_RETRY
        /\ metrics["retried"] = Cardinality(Copies)
        /\ \A e \in Ids :
             /\ tasks[e].pc \in {"requeue", "ack", "done"} =>
                  IF AttemptOf(log[e]) < HLS_MAX_RETRY
                  THEN /\ tasks[e].error = "hls_connection"
                       /\ tasks[e].pc # "ack"
                       /\ e \notin processedIds
                       /\ ~AckScheduled(e)
                  ELSE /\ tasks[e].error = ""
                       /\ e \in processedIds
                       /\ \A j \in Copies : log[j].parent # e
             /\ \A j \in Copies :
                  log[j].parent = e => log[j].attempt = AttemptOf(log[e]) + 1)
  /\ [][\A e \in Ids :
          tasks[e].pc = "adapter" /\ tasks'[e].pc # "adapter" =>
            IF AttemptOf(log[e]) < HLS_MAX_RETRY
            THEN /\ tasks'[e].pc = "requeue"
                 /\ metrics' = metrics
                 /\ scheduled' = scheduled
            ELSE /\ metrics'["processed"] = metrics["processed"] + 1
                 /\ \/ tasks'[e].pc = "ack"
                    \/ e \in Range(scheduled'[log[e].stream])
                 /\ log' = log
                 /\ dlq' = dlq
       ]_vars

\* with REDIS_MAX_RETRY = 1 a job that started at attempt 0 was requeued 3
\* times and its copy with attempt 3 was completed and acknowledged
C18_Witness ==
  /\ settings.REDIS_MAX_RETRY = 1
  /\ Len(log) = 4
  /\ log[1].attempt = 0
  /\ log[4].attempt = 3
  /\ 4 \in processedIds
  /\ 4 \in ackedIds
  /\ metrics["retried"] = 3

\* the tasks that went into "except Exception"
Failed == {e \in Ids : tasks[e].error \in {"empty_hls", "adapter_error"}}

\* C19: an entry with an empty hls never reaches the adapter; its task counts
\* "failed" and goes the way of an exception: the requeue with attempt + 1
\* while attempt < REDIS_MAX_RETRY, the dead-letter stream only from
\* attempt >= REDIS_MAX_RETRY on
C19_ValidationFollowsBudget ==
  /\ metrics["failed"] = Cardinality(Failed)
  /\ \A e \in Ids :
       ~log[e].hls =>
         /\ tasks[e].pc # "adapter"
         /\ e \notin processedIds
         /\ tasks[e].pc \notin {"none", "sem"} => tasks[e].error = "empty_hls"
         /\ tasks[e].pc = "requeue" =>
              AttemptOf(log[e]) < settings.REDIS_MAX_RETRY
         /\ tasks[e].pc \in {"dlq", "ack"} =>
              AttemptOf(log[e]) >= settings.REDIS_MAX_RETRY
         /\ \A j \in Copies :
              log[j].parent = e =>
                /\ log[j].attempt = AttemptOf(log[e]) + 1
                /\ AttemptOf(log[e]) < settings.REDIS_MAX_RETRY
                /\ log[j].last_error = "empty_hls"
         /\ \A d \in 1..Len(dlq) :
              dlq[d].parent = e =>
                /\ AttemptOf(log[e]) >= settings.REDIS_MAX_RETRY
                /\ dlq[d].final_error = "empty_hls"

\* an entry with an empty hls was requeued and its copy dead-lettered
C19_Witness ==
  /\ Len(log) = 2
  /\ ~log[1].hls
  /\ log[2].parent = 1
  /\ \E d \in 1..Len(dlq) : dlq[d].parent = 2
  /\ metrics["failed"] = 2
  /\ metrics["retried"] = 1

\* task e failed with retries left
Retrying(e) == e \in Failed /\ AttemptOf(log[e]) < settings.REDIS_MAX_RETRY

\* C20: a task that failed with attempt < REDIS_MAX_RETRY has counted
\* "failed" and neither schedules the ack of its entry nor appends to the
\* dead-letter stream; its requeue, when Redis takes the xadd, appends to the
\* stream of the entry one copy with attempt + 1, the failure as last_error
\* and retry_at, counts "retried", and leaves the log as it was before the
\* copy, the dead-letter stream and the pending entries unchanged
C20_RetryPathEffect ==
  /\ [](/\ metrics["failed"] = Cardinality(Failed)
        /\ \A e \in Ids :
             Retrying(e) =>
               /\ tasks[e].pc \in {"requeue", "done"}
               /\ ~AckScheduled(e)
               /\ e \in pel[consumer_name]
               /\ \A d \in 1..Len(dlq) : dlq[d].parent # e)
  /\ [][\A e \in Ids :
          Retrying(e) /\ tasks[e].pc = "requeue" /\ tasks'[e].pc = "done"
            /\ Len(log') > Len(log) =>
              /\ log' = Append(log, [stream |-> log[e].stream,
                                     hls |-> log[e].hls,
                                     attempt |-> AttemptOf(log[e]) + 1,
                                     last_error |-> tasks[e].error,
                                     retry_at |-> TRUE, parent |-> e])
              /\ metrics'["retried"] = metrics["retried"] + 1
              /\ metrics'["failed"] = metrics["failed"]
              /\ dlq' = dlq
              /\ pel' = pel
              /\ scheduled' = scheduled
              /\ ack_buffers' = ack_buffers
       ]_vars

\* a task whose adapter raised has requeued its entry, which is still pending
C20_Witness ==
  /\ Len(log) >= 2
  /\ Retrying(1)
  /\ tasks[1].error = "adapter_error"
  /\ tasks[1].pc = "done"
  /\ log[2].parent = 1
  /\ 1 \in pel[consumer_name]

\* C21: the counter concurrency_current is the number of tasks inside
\* "async with self.semaphore", in every state; it is 0 when none is inside
C21_InFlightGauge == metrics["concurrency_current"] = Cardinality(Inside)

\* C22: while the xack of a flush is in flight the lock of the ack buffers is
\* free, so that a task suspended in _schedule_ack can take it and append
C22_AckOutsideLock ==
  flush.pc = "xack" =>
    /\ ack_lock = "free"
    /\ \A e \in Ids : tasks[e].pc = "ack" => ENABLED ScheduleAck(e)

\* the xack in flight ends and leaves ids of its batch unacknowledged: it
\* raised
XAckFailed ==
  /\ flush.pc = "xack"
  /\ flush' # flush
  /\ ~(Range(flush.batch) \subseteq ackedIds')

\* C23: when the xack of a batch raises, the ids of the batch stay pending
\* and do not come back into a buffer; _flush_acks goes on with the next
\* stream that has ids, or returns and releases the lock; and the flush loop
\* that called it goes on
C23_FlushFailure ==
  [][XAckFailed =>
       /\ pel' = pel
       /\ \A s \in StreamSet : ack_buffers'[s] \in {ack_buffers[s], <<>>}
       /\ \A e \in Range(flush.batch) \ ackedIds :
            \A s \in StreamSet : e \notin Range(ack_buffers'[s])
       /\ IF NonEmpty(flush.todo) # {}
          THEN /\ flush'.pc = "xack"
               /\ flush'.stream \in Range(flush.todo)
               /\ flush'.batch = ack_buffers[flush'.stream]
               /\ ack_buffers'[flush'.stream] = <<>>
               /\ flusher' = flusher
               /\ starts' = starts
          ELSE /\ flush' = FlushIdle
               /\ ack_lock' = "free"
               /\ flusher.by = "loop" =>
                    starts'[flusher.g].ackflush =
                      IF running THEN "sleep" ELSE "exited"
    ]_vars

\* the xack of the first stream raised and the flush is at the xack of the
\* second one; the ids of the first batch are pending and in no buffer
C23_Witness ==
  /\ flush.pc = "xack"
  /\ flush.stream = streams[2]
  /\ ack_buffers[streams[1]] = <<>>
  /\ \E e \in Range(sent[streams[1]]) :
       e \notin ackedIds /\ e \in pel[consumer_name]

Tallies == {"processed", "failed", "retried", "dlq"}

\* C24: the registry has the same six counters in every state, each a
\* natural number, and a step that is not a reset lowers none of processed,
\* failed, retried and dlq
C24_CounterRegistry ==
  /\ [](/\ DOMAIN metrics = CounterNames
        /\ \A c \in CounterNames : metrics[c] \in Nat)
  /\ [][\/ \A c \in Tallies : metrics'[c] >= metrics[c]
        \/ /\ \A c \in CounterNames \ {"concurrency_current"} : metrics'[c] = 0
           /\ metrics'["concurrency_current"] = metrics["concurrency_current"]
       ]_vars

\* counted, set and clamped: the tallies at their bound with both gauges set
C24_Witness ==
  /\ \A c \in Tallies : metrics[c] = MaxCount
  /\ metrics["pending"] = MaxCount
  /\ metrics["concurrency_current"] = 0

\* C25: at most current_concurrency tasks are inside "async with
\* self.semaphore", whatever calls of update_concurrency there were
C25_CapAcrossChanges == Cardinality(Inside) <= current_concurrency

\* C26: the flag is up only while a start() is under way: once every
\* start() has ended, by the end, an error or the cancellation of its loops,
\* running is False and the guard of start() lets the next call pass
C26_RunningTracksLoops ==
  running => \E g \in Starts : starts[g].pc # "returned"

\* the tasks created and not ended
InFlight == {e \in Ids : tasks[e].pc \in InGate \cup {"sem"}}

\* C27: when start() has returned and no task is left in flight, every id
\* that was put into an ack buffer has gone out with an xack: the buffers are
\* empty
C27_NoStrandedAck ==
  (starts # <<>> /\ InFlight = {}
     /\ \A g \in Starts : starts[g].pc = "returned") =>
    \A s \in StreamSet : ack_buffers[s] = <<>>

\* the copies of entry e in the streams and its entries in the dead-letter
\* stream: what the task of e has appended
CopiesOf(e) == {j \in Ids : log[j].parent = e}

DeadLettersOf(e) == {d \in 1..Len(dlq) : dlq[d].parent = e}

\* C28: the task of an entry appends one entry at most, a copy or a
\* dead-letter entry, and hands the id to _schedule_ack once at most; with a
\* copy appended it schedules no ack, and having counted "processed" it has
\* appended nothing
C28_OutcomeExclusivity ==
  \A e \in Ids :
    /\ Cardinality(CopiesOf(e)) + Cardinality(DeadLettersOf(e)) <= 1
    /\ Count(e, scheduled[log[e].stream]) <= 1
    /\ e \notin reacked
    /\ CopiesOf(e) # {} => ~AckScheduled(e)
    /\ e \in processedIds => CopiesOf(e) = {} /\ DeadLettersOf(e) = {}

\* the task of the first entry has requeued it and scheduled no ack; the task
\* of the copy has dead-lettered it and its ack has been sent
C28_Witness ==
  /\ CopiesOf(1) = {2}
  /\ tasks[1].pc = "done"
  /\ ~AckScheduled(1)
  /\ DeadLettersOf(2) # {}
  /\ 2 \in ackedIds

\* C29: "retried" is the number of copies that an xadd of the worker which
\* returned has put into the streams, and "dlq" the number of entries that
\* such an xadd has put into the dead-letter stream; a task whose xadd raises
\* ends its append with both counters as they were
C29_CountersAgreeWithLog ==
  /\ [](/\ metrics["retried"] = Cardinality(Copies)
        /\ metrics["dlq"] = Len(dlq))
  /\ [][\A e \in Ids :
          /\ tasks[e].pc = "requeue" /\ tasks'[e].pc # "requeue"
               /\ log' = log =>
                 metrics'["retried"] = metrics["retried"]
          /\ tasks[e].pc = "dlq" /\ tasks'[e].pc # "dlq" /\ dlq' = dlq =>
                 metrics'["dlq"] = metrics["dlq"]
       ]_vars

\* one requeue was appended and counted; the dead-letter xadd of its copy
\* raised and was not counted
C29_Witness ==
  /\ Copies = {2}
  /\ metrics["retried"] = 1
  /\ tasks[2].error # ""
  /\ AttemptOf(log[2]) >= settings.REDIS_MAX_RETRY
  /\ tasks[2].pc \in {"ack", "done"}
  /\ dlq = <<>>
  /\ metrics["dlq"] = 0

\* the task of e went the way of a requeue: the GPU guard, an unreachable
\* source below its limit, or an exception with retries left
RequeuePath(e) ==
  \/ tasks[e].error \in {"gpu_memory", "hls_connection"}
  \/ Retrying(e)

\* the task of e has ended on that way and there is no copy of e
Unrequeued(e) ==
  /\ e \in Ids
  /\ tasks[e].pc = "done"
  /\ RequeuePath(e)
  /\ CopiesOf(e) = {}

\* C30: a task that ends on the way of a requeue leaves a copy in the
\* stream, or else its entry is returned by a later read and processed
C30_FailedRequeueRecovers ==
  \A e \in 1..MaxChain :
    Unrequeued(e) ~> (e \in redelivered \/ e \in processedIds)
====
